---- MODULE Spec2Model ----
(***************************************************************************)
(* The code processor of titanium-code-processor: the tagged listener      *)
(* sets, the pass loop of _processProject, _processFile, the scope         *)
(* operations and the rule dispatcher _processRule, as one state machine.  *)
(* The program is single threaded and synchronous; every action is one     *)
(* call (or one loop iteration) of the source, and `trace' records, in     *)
(* order, what a call did that a plugin can observe.                       *)
(***************************************************************************)
EXTENDS Integers, Sequences, FiniteSets, TLC

\* ------------------------------------------------------------------ bounds
\* listeners registered by plugins before process() is called
MaxListeners == 2
\* top-level statements of the entry file
MaxNodes == 2
\* declarators of a var statement
MaxDeclarators == 2
\* direct calls of the scope operations, of lookupVariable and of
\* _processFile in one run
MaxScopeCalls == 3

\* ------------------------------------------------------------- JS values
\* JavaScript's undefined, for callbacks and scope references (ids are >= 1)
Undefined == 0
\* a falsy tag argument: the listener goes to the default set (line 483)
NoTag == ""
Tags == {"A", "B"}
TagArgs == Tags \cup {NoTag}

\* the context of an undefined scope never exists in the program: reading
\* it throws. This value only fills the ctx field of trace entries that
\* have no context (a firing, a handler call).
NoContext == [name |-> "-", file |-> "-", line |-> 0, col |-> 0]
\* `previousContext: oldScope && oldScope.context' when oldScope is undefined
UndefinedContext == [name |-> "undefined", file |-> "undefined", line |-> 0, col |-> 0]
NoData == [none |-> TRUE]
\* `!data && (data = {})' (line 517)
EmptyPayload == [empty |-> TRUE]

EntryPoint == "Resources/app.js"

\* process-state events a plugin registers for
PluginEvents ==
  {"fileProcessingBegin", "contextChange", "parseError", "fileLoadError",
   "processingComplete"}
\* process() itself registers for processingComplete and processingError
ProcessStateEvents == PluginEvents \cup {"processingError"}

\* ------------------------------------------------------------------- AST
\* rule[0] of a node of the parser collaborator: an object with the keys
\* name, start and end (embed_tokens).
NodeInfo(kind) == [name |-> kind, start |-> "1:0", end |-> "1:9"]
Node(kind) == [info |-> NodeInfo(kind)]

\* node kinds the entry file may hold at top level
NodeKinds == {"var", "unary-prefix", "widget"}
\* rule names a plugin listens to
RuleNames == {"var", "allrules"}

\* property read on an object: undefined for a key it does not have
UndefinedValue == "<undefined>"
Get(obj, key) == IF key \in DOMAIN obj THEN obj[key] ELSE UndefinedValue

\* capitalize (lines 259-261): the first letter in upper case, the rest as is
capitalize(str) ==
  CASE str = "var" -> "Var"
    [] str = "unary-prefix" -> "Unary-prefix"
    [] str = "unary-postfix" -> "Unary-postfix"
    [] str = "for-in" -> "For-in"
    [] str = "widget" -> "Widget"
    [] OTHER -> str

\* the suffixes X of the properties _processRuleX assigned on the prototype
\* (lines 766-955); "Unary-postfix" is assigned twice, "Unary-prefix" never
HandlerTable ==
  {"Atom", "Num", "String", "Name", "Array", "Object", "Regexp", "Assign",
   "Binary", "Unary-postfix", "Call", "Dot", "Sub", "Seq", "Conditional",
   "Function", "New", "Toplevel", "Block", "Stat", "Label", "If", "With",
   "Var", "Defun", "Return", "Debugger", "Try", "Throw", "Break", "Continue",
   "While", "Do", "For", "For-in", "Switch"}

\* ------------------------------------------------------------------ state
VARIABLES
  taggedListeners,              \* this._taggedListeners: the tagged sets, in order
  defaultListeners,             \* this._defaultListeners
  currentProcessStateListeners, \* reference to the active set (NoSet: unset)
  currentRuleListeners,         \* reference to the active set (NoSet: unset)
  scopes,                       \* this._scopes: ids of the scopes created in this pass
  callStack,                    \* this._callStack
  moduleList,                   \* this._moduleList
  scopeStack,                   \* this._scopeStack: ids
  currentGlobalScope,           \* this._currentGlobalScope
  masterGlobalScope,            \* this._masterGlobalScope
  currentScope,                 \* this._currentScope (Undefined until a scope is entered)
  heap,                         \* the scope objects ever allocated, by id
  trace,                        \* what the calls did, in order
  thrown,                       \* the error that left process(), or "none"
  pc,                           \* where the run is
  tagIndex,                     \* i, the loop index of _processProject (line 565)
  tagCount,                     \* len, this._taggedListeners.length at the call (line 566)
  root,                         \* root[1] of the file being walked (line 641)
  nodeIndex,                    \* loop index of _processFile (line 659)
  entryExists,                  \* the entry file is on disk
  parseFails,                   \* the parser collaborator rejects the entry file
  ast,                          \* what the parser returns for the entry file
  nextCallback,                 \* identity of the next callback function
  registered,                   \* the registration calls made, in order
  scopeCalls                    \* direct calls made so far

vars ==
  <<taggedListeners, defaultListeners, currentProcessStateListeners,
    currentRuleListeners, scopes, callStack, moduleList, scopeStack,
    currentGlobalScope, masterGlobalScope, currentScope, heap, trace, thrown,
    pc, tagIndex, tagCount, root, nodeIndex, entryExists, parseFails, ast, nextCallback,
    registered, scopeCalls>>

\* the fields an operation of the processor reads and writes, as one record
This ==
  [taggedListeners |-> taggedListeners,
   defaultListeners |-> defaultListeners,
   currentProcessStateListeners |-> currentProcessStateListeners,
   currentRuleListeners |-> currentRuleListeners,
   scopes |-> scopes, callStack |-> callStack, moduleList |-> moduleList,
   scopeStack |-> scopeStack, currentGlobalScope |-> currentGlobalScope,
   masterGlobalScope |-> masterGlobalScope, currentScope |-> currentScope,
   heap |-> heap, trace |-> trace, thrown |-> thrown]

\* the fields after an operation
Becomes(t) ==
  /\ taggedListeners' = t.taggedListeners
  /\ defaultListeners' = t.defaultListeners
  /\ currentProcessStateListeners' = t.currentProcessStateListeners
  /\ currentRuleListeners' = t.currentRuleListeners
  /\ scopes' = t.scopes
  /\ callStack' = t.callStack
  /\ moduleList' = t.moduleList
  /\ scopeStack' = t.scopeStack
  /\ currentGlobalScope' = t.currentGlobalScope
  /\ masterGlobalScope' = t.masterGlobalScope
  /\ currentScope' = t.currentScope
  /\ heap' = t.heap
  /\ trace' = t.trace
  /\ thrown' = t.thrown

\* ------------------------------------------------------------------ trace
\* one observable step: k is what happened, name the event or rule name,
\* cb the callback invoked or the scope concerned, ctx and data the arguments
Entry(k, name, cb, ctx, data) ==
  [k |-> k, name |-> name, cb |-> cb, ctx |-> ctx, data |-> data]
Log(t, e) == [t EXCEPT !.trace = Append(@, e)]
\* a throw: the rest of the call, and of its callers, does not run
Throw(t, error) ==
  [Log(t, Entry("throw", error, Undefined, NoContext, NoData)) EXCEPT !.thrown = error]

\* ---------------------------------------------------------- listener sets
NoSet == -1
\* `listeners ? ... : []': a name never registered has no listeners
EmptyProcessStateListeners == [n \in ProcessStateEvents |-> <<>>]
EmptyRuleListeners == [n \in RuleNames |-> [pre |-> <<>>, post |-> <<>>]]
NewListenerSet(tag) ==
  [tag |-> tag,
   processStateListeners |-> EmptyProcessStateListeners,
   ruleListeners |-> EmptyRuleListeners]

\* a listener set by reference: 0 is the default set, n >= 1 the n-th tagged set
SetAt(t, ref) == IF ref = 0 THEN t.defaultListeners ELSE t.taggedListeners[ref]
WithSet(t, ref, set) ==
  IF ref = 0
    THEN [t EXCEPT !.defaultListeners = set]
    ELSE [t EXCEPT !.taggedListeners[ref] = set]

\* _getTaggedListeners without the search of lines 487-491: a tagged call
\* always makes a new set
getTaggedListenersNoSearch(t, tag) ==
  IF tag # NoTag
    THEN [t |-> [t EXCEPT !.taggedListeners = Append(@, NewListenerSet(tag))],
          ref |-> Len(t.taggedListeners) + 1]
    ELSE [t |-> t, ref |-> 0]

\* _getTaggedListeners (lines 481-503): the set of a tag, created at the end
\* of the list at the tag's first use; the default set for a falsy tag
getTaggedListeners(t, tag) ==
  IF tag # NoTag
    THEN LET found == {n \in 1..Len(t.taggedListeners) : t.taggedListeners[n].tag = tag}
         IN IF found # {}
              THEN [t |-> t, ref |-> CHOOSE n \in found : \A m \in found : m <= n]
              ELSE [t |-> [t EXCEPT !.taggedListeners = Append(@, NewListenerSet(tag))],
                    ref |-> Len(t.taggedListeners) + 1]
    ELSE [t |-> t, ref |-> 0]

\* addProcessorStateListener (lines 391-401)
addProcessorStateListener(t, name, callback, tag) ==
  LET g == getTaggedListeners(t, tag)
      set == SetAt(g.t, g.ref)
  IN WithSet(g.t, g.ref,
       [set EXCEPT !.processStateListeners[name] = Append(@, callback)])

\* addRuleListener (lines 414-433); preorder is a boolean, tag a string
addRuleListener(t, name, callback, tag, preorder) ==
  LET g == getTaggedListeners(t, tag)
      set == SetAt(g.t, g.ref)
  IN WithSet(g.t, g.ref,
       IF preorder
         THEN [set EXCEPT !.ruleListeners[name].pre = Append(@, callback)]
         ELSE [set EXCEPT !.ruleListeners[name].post = Append(@, callback)])

\* ------------------------------------------------------------ event firing
\* listeners[i](this._currentScope.context, ...) for i = from .. length-1:
\* reading .context of an undefined current scope and calling an undefined
\* callback are TypeErrors
RECURSIVE InvokeListeners(_, _, _, _, _, _)
InvokeListeners(t, k, name, listeners, data, from) ==
  IF t.thrown # "none" \/ from > Len(listeners)
    THEN t
    ELSE IF t.currentScope = Undefined \/ listeners[from] = Undefined
      THEN Throw(t, "TypeError")
      ELSE InvokeListeners(
             Log(t, Entry(k, name, listeners[from],
                          t.heap[t.currentScope].context, data)),
             k, name, listeners, data, from + 1)

\* _fireProcessStateEvent (lines 513-524)
fireProcessStateEvent(t, name, data) ==
  LET listeners ==
        SetAt(t, t.currentProcessStateListeners).processStateListeners[name]
      payload == IF data = NoData THEN EmptyPayload ELSE data
  IN InvokeListeners(Log(t, Entry("fire", name, Undefined, NoContext, payload)),
                     "listener", name, listeners, payload, 1)

\* this._currentRuleListeners[name][type], [] when the name has no listeners
RuleListenersOf(t, name, type) ==
  LET all == SetAt(t, t.currentRuleListeners).ruleListeners
  IN IF name \in DOMAIN all THEN all[name][type] ELSE <<>>

\* _fireRuleEvent with the two loops swapped: "allrules" first
fireRuleEventWildcardFirst(t, rule, value, preorder) ==
  LET type == IF preorder THEN "pre" ELSE "post"
      data == [rule |-> rule, value |-> value, type |-> type]
      name == rule.info.name
      t1 == Log(t, Entry("fireRule", name, Undefined, NoContext, data))
      t2 == InvokeListeners(t1, "ruleListener", "allrules",
                            RuleListenersOf(t1, "allrules", type), data, 1)
  IN InvokeListeners(t2, "ruleListener", name,
                     RuleListenersOf(t2, name, type), data, 1)

\* _fireRuleEvent (lines 535-552): the listeners of the rule's name, then
\* those of "allrules"
fireRuleEvent(t, rule, value, preorder) ==
  LET type == IF preorder THEN "pre" ELSE "post"
      data == [rule |-> rule, value |-> value, type |-> type]
      name == rule.info.name
      t1 == Log(t, Entry("fireRule", name, Undefined, NoContext, data))
      t2 == InvokeListeners(t1, "ruleListener", name,
                            RuleListenersOf(t1, name, type), data, 1)
  IN InvokeListeners(t2, "ruleListener", "allrules",
                     RuleListenersOf(t2, "allrules", type), data, 1)

\* ------------------------------------------------------------------ scopes
\* identity of the next scope object
NewScopeId(t) == Len(t.heap) + 1

\* _createScope (lines 676-688): a new scope object, appended to the history
createScope(t, name, file, line, col) ==
  LET id == NewScopeId(t)
      newScope == [context |-> [name |-> name, file |-> file, line |-> line, col |-> col],
                   symbols |-> <<>>]
  IN [t EXCEPT !.heap = Append(@, newScope), !.scopes = Append(@, id)]

\* _enterScope (lines 697-706)
enterScope(t, scope) ==
  LET oldScope == t.currentScope
      t1 == [t EXCEPT !.currentScope = scope, !.scopeStack = Append(@, scope)]
      t2 == Log(t1, Entry("enterScope", "", scope, NoContext, NoData))
  IN fireProcessStateEvent(t2, "contextChange",
       [previousContext |->
          IF oldScope = Undefined THEN UndefinedContext
          ELSE t.heap[oldScope].context])

\* Array.prototype.shift in the place of pop: the first element goes
Shift(stack) == IF stack = <<>> THEN <<>> ELSE SubSeq(stack, 2, Len(stack))
\* Array.prototype.pop: the array without its last element ([] stays [])
Pop(stack) == IF stack = <<>> THEN <<>> ELSE SubSeq(stack, 1, Len(stack) - 1)
\* array[array.length - 1]: undefined on an empty array
Top(stack) == IF stack = <<>> THEN Undefined ELSE stack[Len(stack)]

\* _exitScope with the guard of _enterScope, `oldScope && oldScope.context'
exitScopeGuarded(t) ==
  LET oldScope == Top(t.scopeStack)
      t1 == [t EXCEPT !.scopeStack = Pop(@), !.currentScope = Top(Pop(t.scopeStack))]
      t2 == Log(t1, Entry("exitScope", "", oldScope, NoContext, NoData))
  IN fireProcessStateEvent(t2, "contextChange",
       [previousContext |->
          IF oldScope = Undefined THEN UndefinedContext
          ELSE t.heap[oldScope].context])

\* _exitScope (lines 714-721): oldScope.context of an undefined oldScope is
\* a TypeError, raised after the two assignments
exitScope(t) ==
  LET oldScope == Top(t.scopeStack)
      t1 == [t EXCEPT !.scopeStack = Pop(@), !.currentScope = Top(Pop(t.scopeStack))]
      t2 == Log(t1, Entry("exitScope", "", oldScope, NoContext, NoData))
  IN IF oldScope = Undefined
       THEN Throw(t2, "TypeError")
       ELSE fireProcessStateEvent(t2, "contextChange",
              [previousContext |-> t.heap[oldScope].context])

\* -------------------------------------------------------------- dispatcher
\* the object keys by index, for `for (var i in keys)': "0", "1", ...
IndexKey(n) == <<"0", "1", "2", "3">>[n + 1]

\* lines 748-752: i runs over the indices of keys, and ruleInfo[i] reads the
\* property named by the index
HasUnrecognizedKey(ruleInfo) ==
  \E n \in 0..(Cardinality(DOMAIN ruleInfo) - 1) :
    LET v == Get(ruleInfo, IndexKey(n))
    IN v # UndefinedValue /\ v # "name" /\ v # "start" /\ v # "end"

\* line 753
MissesRuleKey(ruleInfo) ==
  \E key \in {"name", "start", "end"} : Get(ruleInfo, key) = UndefinedValue

\* this['_processRule' + capitalize(ruleInfo.name)] is a function
HasHandler(kind) == capitalize(kind) \in HandlerTable

\* what a handler call returns
HandlerValue(rule) == UndefinedValue

\* a dispatcher that looks the handler up and skips the call when there is
\* none
callHandlerIfAny(t, rule) ==
  IF HasHandler(rule.info.name)
    THEN Log(t, Entry("handler", rule.info.name, Undefined, NoContext,
                      [rule |-> rule, value |-> HandlerValue(rule)]))
    ELSE t

\* the rule handlers (lines 766-955) are empty: they change nothing and
\* return undefined. Calling a property that is not there is a TypeError.
callHandler(t, rule) ==
  IF HasHandler(rule.info.name)
    THEN Log(t, Entry("handler", rule.info.name, Undefined, NoContext,
                      [rule |-> rule, value |-> HandlerValue(rule)]))
    ELSE Throw(t, "TypeError")

\* lines 757-758: each line evaluates its arguments, the handler call among
\* them, before it calls _fireRuleEvent
fireWithHandler(t, rule, preorder) ==
  LET t1 == callHandler(t, rule)
  IN IF t1.thrown # "none" THEN t1
     ELSE fireRuleEvent(t1, rule, HandlerValue(rule), preorder)

\* _processRule with lines 757 and 758 swapped: post-order first
processRulePostFirst(t, rule) ==
  LET ruleInfo == rule.info
      t0 == Log(t, Entry("processRule", Get(ruleInfo, "name"), Undefined, NoContext,
                         [rule |-> rule]))
  IN IF HasUnrecognizedKey(ruleInfo) \/ MissesRuleKey(ruleInfo)
       THEN Throw(t0, "Error")
       ELSE LET t1 == fireWithHandler(t0, rule, FALSE)
            IN IF t1.thrown # "none" THEN t1 ELSE fireWithHandler(t1, rule, TRUE)

\* _processRule (lines 742-759)
processRule(t, rule) ==
  LET ruleInfo == rule.info
      t0 == Log(t, Entry("processRule", Get(ruleInfo, "name"), Undefined, NoContext,
                         [rule |-> rule]))
  IN IF HasUnrecognizedKey(ruleInfo) \/ MissesRuleKey(ruleInfo)
       THEN Throw(t0, "Error")
       ELSE LET t1 == fireWithHandler(t0, rule, TRUE)
            IN IF t1.thrown # "none" THEN t1 ELSE fireWithHandler(t1, rule, FALSE)

\* -------------------------------------------------------------- the walker
\* processProjectHelper, lines 585-589: the data of a pass
initProcessingData(t, entryPoint) ==
  LET t1 == [t EXCEPT !.scopes = <<>>, !.callStack = <<>>, !.moduleList = <<>>,
                      !.scopeStack = <<>>]
      t2 == createScope(t1, "@global", entryPoint, 0, 0)
  IN [t2 EXCEPT !.currentGlobalScope = t2.scopes[Len(t2.scopes)],
                !.masterGlobalScope = t2.scopes[Len(t2.scopes)]]

\* the payload of the parseError event (lines 644-649)
ParseErrorData(file) ==
  [message |-> "Unexpected token", file |-> file, line |-> 1, col |-> 1]

\* _processFile (lines 621-669) up to its loop over the top-level nodes:
\* exists is path.existsSync(file), fails whether uglify's parse throws
processFileBegin(t, file, createContext, exists, fails) ==
  IF exists
    THEN LET t1 == fireProcessStateEvent(t, "fileProcessingBegin", [file |-> file])
             t2 == IF t1.thrown # "none" \/ ~createContext THEN t1
                   ELSE LET c == createScope(t1, "@scopedglobal-", file, 0, 0)
                        IN [c EXCEPT !.currentGlobalScope = c.scopes[Len(c.scopes)]]
             t3 == IF t2.thrown # "none" THEN t2
                   ELSE enterScope(t2, t2.currentGlobalScope)
         IN IF t3.thrown # "none" \/ ~fails THEN t3
            ELSE fireProcessStateEvent(t3, "parseError", ParseErrorData(file))
    ELSE fireProcessStateEvent(t, "fileLoadError",
           [file |-> file, error |-> "File Not Found"])

\* --------------------------------------------------------------- the run
Nodes == {Node(kind) : kind \in NodeKinds}
\* the trees the parser can return for the entry file: root[1]
RECURSIVE SeqsUpTo(_, _)
SeqsUpTo(S, n) ==
  IF n = 0 THEN {<<>>}
  ELSE LET shorter == SeqsUpTo(S, n - 1)
       IN shorter \cup {Append(q, x) : q \in shorter, x \in S}
Programs == SeqsUpTo(Nodes, MaxNodes)

\* what process() finds on disk
Projects == {"ok", "no root", "no tiapp.xml", "bad tiapp.xml", "no entry point"}

\* the state after `new CodeProcessor()' (lines 278-312)
Init ==
  /\ taggedListeners = <<>>
  /\ defaultListeners = NewListenerSet(NoTag)
  /\ currentProcessStateListeners = NoSet
  /\ currentRuleListeners = NoSet
  /\ scopes = <<>>
  /\ callStack = <<>>
  /\ moduleList = <<>>
  /\ scopeStack = <<>>
  /\ currentGlobalScope = Undefined
  /\ masterGlobalScope = Undefined
  /\ currentScope = Undefined
  /\ heap = <<>>
  /\ trace = <<>>
  /\ thrown = "none"
  /\ pc = "idle"
  /\ tagIndex = 0
  /\ tagCount = 0
  /\ root = <<>>
  /\ nodeIndex = 0
  /\ entryExists = TRUE
  /\ parseFails = FALSE
  /\ ast = <<>>
  /\ nextCallback = 1
  /\ registered = <<>>
  /\ scopeCalls = 0

Control == <<pc, tagIndex, tagCount, root, nodeIndex>>
\* one registration call, as the caller made it
Registration(api, name, tag, preorder, callback) ==
  [api |-> api, name |-> name, tag |-> tag, preorder |-> preorder,
   callback |-> callback]
Disk == <<entryExists, parseFails, ast>>

\* a plugin calls addProcessorStateListener(name, callback, tag)
AddProcessorStateListener(name, tag) ==
  /\ pc = "idle"
  /\ nextCallback <= MaxListeners
  /\ Becomes(addProcessorStateListener(This, name, nextCallback, tag))
  /\ nextCallback' = nextCallback + 1
  /\ registered' = Append(registered, Registration("state", name, tag, FALSE, nextCallback))
  /\ UNCHANGED <<Control, Disk, scopeCalls>>

\* a plugin calls addRuleListener(name, callback, tag, preorder)
AddRuleListener(name, tag, preorder) ==
  /\ pc = "idle"
  /\ nextCallback <= MaxListeners
  /\ Becomes(addRuleListener(This, name, nextCallback, tag, preorder))
  /\ nextCallback' = nextCallback + 1
  /\ registered' = Append(registered, Registration("rule", name, tag, preorder, nextCallback))
  /\ UNCHANGED <<Control, Disk, scopeCalls>>

\* the call of process on a project, as the first entry of the run
Called(t, project, completionCallback) ==
  Log(t, Entry("process", project, completionCallback, NoContext, NoData))

\* process without the check of lines 365-367: a missing entry file is left
\* to _processFile
processWithoutEntryCheck(t, project, completionCallback, errorCallback) ==
  LET t0 == Called(t, project, completionCallback)
  IN IF project = "no root" THEN Throw(t0, "InvalidArgumentsError")
     ELSE LET t1 == addProcessorStateListener(t0, "processingComplete",
                                              completionCallback, NoTag)
              t2 == addProcessorStateListener(t1, "processingError",
                                              errorCallback, NoTag)
          IN CASE project = "no tiapp.xml" -> Throw(t2, "InvalidArgumentsError")
               [] project = "bad tiapp.xml" -> Throw(t2, "Error")
               [] OTHER -> t2

\* process (lines 328-370), up to the call of _processProject and the
\* first lines of that (565-566)
process(t, project, completionCallback, errorCallback) ==
  LET t0 == Called(t, project, completionCallback)
  IN IF project = "no root" THEN Throw(t0, "InvalidArgumentsError")
     ELSE LET t1 == addProcessorStateListener(t0, "processingComplete",
                                              completionCallback, NoTag)
              t2 == addProcessorStateListener(t1, "processingError",
                                              errorCallback, NoTag)
          IN CASE project = "no tiapp.xml" -> Throw(t2, "InvalidArgumentsError")
               [] project = "bad tiapp.xml" -> Throw(t2, "Error")
               [] project = "no entry point" -> Throw(t2, "InvalidArgumentsError")
               [] OTHER -> t2

Process(project, completionCallback, errorCallback, program, fails) ==
  /\ pc = "idle"
  /\ LET t == process(This, project, completionCallback, errorCallback)
     IN /\ Becomes(t)
        /\ pc' = IF t.thrown # "none" THEN "threw" ELSE "passes"
        /\ tagCount' = Len(t.taggedListeners)
  /\ tagIndex' = 0
  /\ entryExists' = (project # "no entry point" /\ project # "no root")
  /\ parseFails' = fails
  /\ ast' = program
  /\ nextCallback' = nextCallback + 2
  /\ registered' =
       IF project = "no root" THEN registered
       ELSE registered \o
            <<Registration("state", "processingComplete", NoTag, FALSE, completionCallback),
              Registration("state", "processingError", NoTag, FALSE, errorCallback)>>
  /\ UNCHANGED <<root, nodeIndex, scopeCalls>>

\* control after processProjectHelper returns (lines 596-608): the next
\* tagged set, then the default set, then process() returns and the timer
\* of line 373 is pending
AfterPass ==
  /\ tagIndex' = tagIndex + 1
  /\ pc' = IF tagIndex = tagCount THEN "timer" ELSE "passes"

\* lines 598-600 or 605-607, and 585-589: the active set and the data of the pass
PassBegin ==
  /\ pc = "passes"
  /\ LET ref == IF tagIndex < tagCount THEN tagIndex + 1 ELSE 0
         t0 == [This EXCEPT !.currentProcessStateListeners = ref,
                            !.currentRuleListeners = ref]
         t1 == Log(t0, Entry("pass", SetAt(t0, ref).tag, ref, NoContext, NoData))
     IN Becomes(initProcessingData(t1, EntryPoint))
  /\ pc' = "file"
  /\ UNCHANGED <<tagIndex, tagCount, root, nodeIndex, Disk, nextCallback, registered, scopeCalls>>

\* line 592: _processFile(entryPoint, false) up to its loop
ProcessFile ==
  /\ pc = "file"
  /\ LET t == processFileBegin(This, EntryPoint, FALSE, entryExists, parseFails)
     IN /\ Becomes(t)
        /\ IF t.thrown # "none"
             THEN pc' = "threw" /\ UNCHANGED <<tagIndex, root, nodeIndex>>
             ELSE IF entryExists /\ ~parseFails
               THEN /\ pc' = "walk"
                    /\ root' = ast
                    /\ nodeIndex' = 0
                    /\ UNCHANGED tagIndex
               ELSE AfterPass /\ UNCHANGED <<root, nodeIndex>>
  /\ UNCHANGED <<tagCount, Disk, nextCallback, registered, scopeCalls>>

\* lines 659-661: one iteration of the loop over root[1]
ProcessRule ==
  /\ pc = "walk"
  /\ nodeIndex < Len(root)
  /\ LET t == processRule(This, root[nodeIndex + 1])
     IN /\ Becomes(t)
        /\ pc' = IF t.thrown # "none" THEN "threw" ELSE "walk"
  /\ nodeIndex' = nodeIndex + 1
  /\ UNCHANGED <<tagIndex, tagCount, root, Disk, nextCallback, registered, scopeCalls>>

\* the loop ends: _processFile and processProjectHelper return
FileReturn ==
  /\ pc = "walk"
  /\ nodeIndex = Len(root)
  /\ AfterPass
  /\ Becomes(This)
  /\ UNCHANGED <<tagCount, root, nodeIndex, Disk, nextCallback, registered, scopeCalls>>

\* lines 373-375: the timer fires processingComplete
Timer ==
  /\ pc = "timer"
  /\ LET t == fireProcessStateEvent(This, "processingComplete", NoData)
     IN /\ Becomes(t)
        /\ pc' = IF t.thrown # "none" THEN "threw" ELSE "done"
  /\ UNCHANGED <<tagIndex, tagCount, root, nodeIndex, Disk, nextCallback, registered, scopeCalls>>

\* the environment: the entry file is removed between two passes (each pass
\* asks path.existsSync again, line 624)
Unlink ==
  /\ pc = "passes"
  /\ entryExists
  /\ entryExists' = FALSE
  /\ Becomes(This)
  /\ UNCHANGED <<Control, parseFails, ast, nextCallback, registered, scopeCalls>>

\* process(root), process(root, completionCallback) and
\* process(root, completionCallback, errorCallback): <<completion, error>>
CallbackArgs ==
  {<<Undefined, Undefined>>, <<nextCallback, Undefined>>,
   <<nextCallback, nextCallback + 1>>}

\* the scope operations have no caller in the source (the rule handlers are
\* empty): a handler or a plugin calls them while a file is walked
CallCreateScope ==
  /\ pc = "walk"
  /\ scopeCalls < MaxScopeCalls
  /\ Becomes(createScope(This, "@anonymous", EntryPoint, 1, 0))
  /\ scopeCalls' = scopeCalls + 1
  /\ UNCHANGED <<Control, Disk, nextCallback, registered>>

CallEnterScope(scope) ==
  /\ pc = "walk"
  /\ scopeCalls < MaxScopeCalls
  /\ LET t == enterScope(This, scope)
     IN /\ Becomes(t)
        /\ pc' = IF t.thrown # "none" THEN "threw" ELSE "walk"
  /\ scopeCalls' = scopeCalls + 1
  /\ UNCHANGED <<tagIndex, tagCount, root, nodeIndex, Disk, nextCallback, registered>>

CallExitScope ==
  /\ pc = "walk"
  /\ scopeCalls < MaxScopeCalls
  /\ LET t == exitScope(This)
     IN /\ Becomes(t)
        /\ pc' = IF t.thrown # "none" THEN "threw" ELSE "walk"
  /\ scopeCalls' = scopeCalls + 1
  /\ UNCHANGED <<tagIndex, tagCount, root, nodeIndex, Disk, nextCallback, registered>>

\* lookupVariable (lines 445-447): an empty function. It reads nothing,
\* changes nothing, throws nothing and returns undefined.
lookupVariable(t, variableName) == UndefinedValue

\* a rule listener is running: the listener called last has not returned
\* yet, or it has just made a call of lookupVariable
InRuleCallback ==
  /\ pc = "walk"
  /\ trace # <<>>
  /\ \/ trace[Len(trace)].k = "ruleListener"
     \/ trace[Len(trace)].k = "lookupVariable" /\ trace[Len(trace)].data.active

\* a plugin calls lookupVariable(variableName): from the rule listener that
\* runs, or from outside any listener (before process(), between two
\* dispatches, after the run)
CallLookupVariable(variableName) ==
  /\ pc \in {"idle", "walk", "done"}
  /\ scopeCalls < MaxScopeCalls
  /\ Becomes(Log(This, Entry("lookupVariable", variableName, Undefined, NoContext,
                             [value |-> lookupVariable(This, variableName),
                              error |-> "none",
                              active |-> InRuleCallback])))
  /\ scopeCalls' = scopeCalls + 1
  /\ UNCHANGED <<Control, Disk, nextCallback, registered>>

\* a handler calls _processFile(file, true) for the file being walked, as
\* the processing of a require of that file would (the file has no
\* statements, so the loop of lines 659-661 does nothing)
CallProcessFile ==
  /\ pc = "walk"
  /\ root = <<>>
  /\ scopeCalls < MaxScopeCalls
  /\ LET t == processFileBegin(This, EntryPoint, TRUE, entryExists, parseFails)
     IN /\ Becomes(t)
        /\ pc' = IF t.thrown # "none" THEN "threw" ELSE "walk"
  /\ scopeCalls' = scopeCalls + 1
  /\ UNCHANGED <<tagIndex, tagCount, root, nodeIndex, Disk, nextCallback, registered>>

\* every input: any listeners, any project, any entry file
Next ==
  \/ \E name \in PluginEvents, tag \in TagArgs : AddProcessorStateListener(name, tag)
  \/ \E name \in RuleNames, tag \in TagArgs, preorder \in BOOLEAN :
       AddRuleListener(name, tag, preorder)
  \/ \E project \in Projects, cbs \in CallbackArgs, program \in Programs,
        fails \in BOOLEAN :
       /\ (fails => program = <<>>)
       /\ (project # "ok" => program = <<>> /\ ~fails)
       /\ Process(project, cbs[1], cbs[2], program, fails)
  \/ PassBegin
  \/ ProcessFile
  \/ ProcessRule
  \/ FileReturn
  \/ Timer
  \/ Unlink

Spec == Init /\ [][Next]_vars

\* the dispatcher in depth: rule listeners in the default set and in one
\* tagged set, every entry file that parses
RuleNext ==
  \/ \E name \in RuleNames, tag \in {NoTag, "A"}, preorder \in BOOLEAN :
       AddRuleListener(name, tag, preorder)
  \/ \E program \in Programs :
       Process("ok", nextCallback, nextCallback + 1, program, FALSE)
  \/ PassBegin
  \/ ProcessFile
  \/ ProcessRule
  \/ FileReturn
  \/ Timer

RuleSpec == Init /\ [][RuleNext]_vars

\* the scope operations in depth: contextChange listeners, an entry file
\* without statements, and any sequence of scope calls during the walks
ScopeNext ==
  \/ \E tag \in TagArgs : AddProcessorStateListener("contextChange", tag)
  \/ Process("ok", nextCallback, nextCallback + 1, <<>>, FALSE)
  \/ PassBegin
  \/ ProcessFile
  \/ FileReturn
  \/ Timer
  \/ CallCreateScope
  \/ \E n \in 1..Len(scopes) : CallEnterScope(scopes[n])
  \/ CallExitScope

ScopeSpec == Init /\ [][ScopeNext]_vars

\* process() in depth: every project, with and without callbacks, listeners
\* for the first and the last event of a run, an entry file without statements
ProjectNext ==
  \/ \E name \in {"fileProcessingBegin", "processingComplete"}, tag \in {NoTag, "A"} :
       AddProcessorStateListener(name, tag)
  \/ \E project \in Projects, cbs \in CallbackArgs :
       Process(project, cbs[1], cbs[2], <<>>, FALSE)
  \/ PassBegin
  \/ ProcessFile
  \/ FileReturn
  \/ Timer

ProjectSpec == Init /\ [][ProjectNext]_vars

\* node-infos that are not {name, start, end}: one more key, a key whose
\* name is an array index, and a key missing
MalformedNodes ==
  {[info |-> NodeInfo("var") @@ ("comments" :> "c")],
   [info |-> NodeInfo("var") @@ ("0" :> "c")],
   [info |-> [name |-> "var", start |-> "1:0"]]}

\* the validation of _processRule in depth: entry files whose statements are
\* var statements, well formed or not
ShapeNext ==
  \/ \E name \in RuleNames, preorder \in BOOLEAN : AddRuleListener(name, NoTag, preorder)
  \/ \E program \in SeqsUpTo({Node("var")} \cup MalformedNodes, MaxNodes) :
       Process("ok", nextCallback, nextCallback + 1, program, FALSE)
  \/ PassBegin
  \/ ProcessFile
  \/ ProcessRule
  \/ FileReturn
  \/ Timer

ShapeSpec == Init /\ [][ShapeNext]_vars

\* lookupVariable in depth: rule listeners, entry files of var statements,
\* and calls of lookupVariable at any time
LookupNext ==
  \/ \E name \in RuleNames, preorder \in BOOLEAN : AddRuleListener(name, NoTag, preorder)
  \/ \E program \in SeqsUpTo({Node("var")}, MaxNodes) :
       Process("ok", nextCallback, nextCallback + 1, program, FALSE)
  \/ PassBegin
  \/ ProcessFile
  \/ ProcessRule
  \/ FileReturn
  \/ Timer
  \/ CallLookupVariable("x")

LookupSpec == Init /\ [][LookupNext]_vars

\* _processFile in depth: listeners of its events, an entry file without
\* statements, and further calls of _processFile for the same path
FileNext ==
  \/ \E name \in {"fileProcessingBegin", "contextChange"}, tag \in {NoTag, "A"} :
       AddProcessorStateListener(name, tag)
  \/ Process("ok", nextCallback, nextCallback + 1, <<>>, FALSE)
  \/ PassBegin
  \/ ProcessFile
  \/ FileReturn
  \/ Timer
  \/ CallProcessFile

FileSpec == Init /\ [][FileNext]_vars

\* ------------------------------------------------------------ the var rule
\* The rule module of var statements (lines 8-26) is written against the
\* RuleProcessor and Base modules, which are not part of the source at hand:
\* their operations are modelled from the specification.

\* variable names and literals of the var statements of the model
VarNames == {"x", "y"}
Literals == {"1", "2"}

\* initializer expressions: a number literal or a name
Initializers ==
  {[kind |-> "num", value |-> v] : v \in Literals}
  \cup {[kind |-> "name", value |-> v] : v \in VarNames}

\* children[i] of a var node: [name] or [name, initializer]
Declarators ==
  {[name |-> n] : n \in VarNames}
  \cup {[name |-> n, init |-> e] : n \in VarNames, e \in Initializers}

\* children[i][1]: undefined for a declarator without initializer
HasInitializer(child) == "init" \in DOMAIN child

\* JSValues: a type tag and a value; the unknown type is a tag of its own
JSValue(type, value) == [type |-> type, value |-> value]
UnknownValue == JSValue("unknown", "")

\* the binding of a name in a scope's symbols, as a set of indices
BindingsOf(symbols, name) == {n \in 1..Len(symbols) : symbols[n].name = name}

\* RuleProcessor.fireRuleEvent(ast, {})
RuleProcessor_fireRuleEvent(t, rule, value) ==
  Log(t, Entry("RuleProcessor.fireRuleEvent", rule.info.name, Undefined, NoContext,
               [rule |-> rule, value |-> value]))

\* RuleProcessor.processRule(node): the dispatch of an expression node; a
\* literal evaluates to its JSValue, a name to a reference to the name
RuleProcessor_processRule(t, node) ==
  [t |-> Log(t, Entry("RuleProcessor.processRule", node.kind, Undefined, NoContext,
                      [rule |-> node])),
   value |-> IF node.kind = "num" THEN JSValue("Number", node.value)
             ELSE [reference |-> node.value]]

\* Base.getValue(v): the JSValue bound to a reference in the current scope,
\* the unknown value when the name is not bound; a JSValue is returned as is
Base_getValue(t, v) ==
  IF "reference" \in DOMAIN v
    THEN LET symbols == t.heap[t.currentScope].symbols
             bound == BindingsOf(symbols, v.reference)
         IN IF bound = {} THEN UnknownValue
            ELSE symbols[CHOOSE n \in bound : TRUE].value
    ELSE v

\* Base.putValue(name, value): the binding of the name in the current scope
\* is set to the value (created when the name has none)
Base_putValue(t, name, value) ==
  LET symbols == t.heap[t.currentScope].symbols
      bound == BindingsOf(symbols, name)
      t1 == Log(t, Entry("Base.putValue", name, Undefined, NoContext, [value |-> value]))
  IN IF bound = {}
       THEN [t1 EXCEPT !.heap[t.currentScope].symbols =
                         Append(@, [name |-> name, value |-> value])]
       ELSE [t1 EXCEPT !.heap[t.currentScope].symbols =
                         [n \in DOMAIN symbols |->
                            IF n \in bound THEN [name |-> name, value |-> value]
                            ELSE symbols[n]]]

\* the body of the loop for children[i] (lines 19-21)
VarChild(t, child) ==
  IF HasInitializer(child)
    THEN LET r == RuleProcessor_processRule(t, child.init)
         IN Base_putValue(r.t, child.name, Base_getValue(r.t, r.value))
    ELSE t

\* lines 18-22 with the loop running from the last child to the first
RECURSIVE VarChildrenBackwards(_, _, _)
VarChildrenBackwards(t, children, i) ==
  IF i >= Len(children) THEN t
  ELSE VarChild(VarChildrenBackwards(t, children, i + 1), children[i + 1])

\* lines 18-22: for (; i < len; i++)
RECURSIVE VarChildren(_, _, _)
VarChildren(t, children, i) ==
  IF i >= Len(children) THEN t
  ELSE VarChildren(VarChild(t, children[i + 1]), children, i + 1)

\* exports.processRule of the var rule (lines 12-25); the completion it
\* returns is logged as the last entry
var_processRule(t, rule) ==
  LET t1 == RuleProcessor_fireRuleEvent(t, rule, EmptyPayload)
      t2 == VarChildren(t1, rule.children, 0)
  IN Log(t2, Entry("return", rule.info.name, Undefined, NoContext,
                   [completion |-> <<"normal", UndefinedValue, UndefinedValue>>]))

\* a var statement is about to be processed in the global scope of a pass
VarInit ==
  /\ taggedListeners = <<>>
  /\ defaultListeners = NewListenerSet(NoTag)
  /\ currentProcessStateListeners = 0
  /\ currentRuleListeners = 0
  /\ scopes = <<1>>
  /\ callStack = <<>>
  /\ moduleList = <<>>
  /\ scopeStack = <<1>>
  /\ currentGlobalScope = 1
  /\ masterGlobalScope = 1
  /\ currentScope = 1
  /\ heap = <<[context |-> [name |-> "@global", file |-> EntryPoint, line |-> 0, col |-> 0],
               symbols |-> <<>>]>>
  /\ trace = <<>>
  /\ thrown = "none"
  /\ pc = "var"
  /\ tagIndex = 0
  /\ tagCount = 0
  /\ root = <<>>
  /\ nodeIndex = 0
  /\ entryExists = TRUE
  /\ parseFails = FALSE
  /\ ast \in {<<[info |-> NodeInfo("var"), children |-> c]>> :
                c \in SeqsUpTo(Declarators, MaxDeclarators)}
  /\ nextCallback = 1
  /\ registered = <<>>
  /\ scopeCalls = 0

\* registration in depth: every event and rule name under every tag
RegisterNext ==
  \/ \E name \in PluginEvents, tag \in TagArgs : AddProcessorStateListener(name, tag)
  \/ \E name \in RuleNames, tag \in TagArgs, preorder \in BOOLEAN :
       AddRuleListener(name, tag, preorder)

RegisterSpec == Init /\ [][RegisterNext]_vars

\* the var rule is applied to the statement
VarProcessRule ==
  /\ pc = "var"
  /\ Becomes(var_processRule(This, ast[1]))
  /\ pc' = "done"
  /\ UNCHANGED <<tagIndex, tagCount, root, nodeIndex, Disk, nextCallback, registered, scopeCalls>>

VarNext == VarProcessRule

VarSpec == VarInit /\ [][VarNext]_vars

\* ------------------------------------------------------- reading the trace
\* the entries of one kind
Kinds(k) == {n \in 1..Len(trace) : trace[n].k = k}
\* the last index of the run of entries after n whose kinds are in inner
RECURSIVE RunEnd(_, _)
RunEnd(n, inner) ==
  IF n < Len(trace) /\ trace[n + 1].k \in inner THEN RunEnd(n + 1, inner) ELSE n

\* a dispatch: the call of _processRule at d and everything it did
Dispatches == Kinds("processRule")
DispatchEnd(d) == RunEnd(d, {"handler", "fireRule", "ruleListener", "throw"})
Within(d, k) == {n \in d..DispatchEnd(d) : trace[n].k = k}
FiringsOf(d, type) == {n \in Within(d, "fireRule") : trace[n].data.type = type}
DispatchedNode(d) == trace[d].data.rule
WellFormed(rule) == DOMAIN rule.info = {"name", "start", "end"}

\* the listener calls of the rule firing at f, as <<name listened to, callback>>
Invoked(f) ==
  [n \in 1..(RunEnd(f, {"ruleListener"}) - f) |->
     <<trace[f + n].name, trace[f + n].cb>>]

\* the tag of the pass an entry belongs to (NoTag: the default set's pass)
PassOf(n) ==
  LET p == CHOOSE m \in Kinds("pass") :
             m < n /\ \A q \in Kinds("pass") : q < n => q <= m
  IN trace[p].name

\* the callbacks registered by addRuleListener(name, _, tag, preorder), in
\* the order of the calls, each as <<name, callback>>
RegisteredRuleListeners(name, tag, type) ==
  LET calls == SelectSeq(registered,
                 LAMBDA r : r.api = "rule" /\ r.name = name /\ r.tag = tag
                            /\ r.preorder = (type = "pre"))
  IN [n \in 1..Len(calls) |-> <<name, calls[n].callback>>]

\* ------------------------------------------------------------------ C1
\* C1: every dispatch invokes the node's handler exactly once; the value
\* given to the pre-order firing is the value given to the post-order
\* firing, and no handler call lies between the two firings.
C1_HandlerInvokedOnce ==
  \A d \in Dispatches :
    FiringsOf(d, "post") # {} =>
      /\ Cardinality(Within(d, "handler")) = 1
      /\ \A f \in FiringsOf(d, "pre"), g \in FiringsOf(d, "post") :
           /\ trace[f].data.value = trace[g].data.value
           /\ ~ \E h \in Within(d, "handler") : f < h /\ h < g

\* ------------------------------------------------------------------ C2
\* C2: a dispatch of a well-formed node whose kind has a handler makes
\* exactly one pre-order and exactly one post-order rule-event firing, the
\* pre-order one first, whatever listeners are registered.
C2_OnePreThenOnePost ==
  \A d \in Dispatches :
    (WellFormed(DispatchedNode(d)) /\ HasHandler(DispatchedNode(d).info.name)) =>
      /\ Cardinality(FiringsOf(d, "pre")) = 1
      /\ Cardinality(FiringsOf(d, "post")) = 1
      /\ \A f \in FiringsOf(d, "pre"), g \in FiringsOf(d, "post") : f < g

\* a dispatched var statement with a listener called in its post-order firing
C2_Witness ==
  \E d \in Dispatches :
    /\ DispatchedNode(d).info.name = "var"
    /\ \E g \in FiringsOf(d, "post") : Invoked(g) # <<>>

\* ------------------------------------------------------------------ C3
\* C3: one firing for a node of kind K calls the listeners registered for K
\* (in the active set, for that order) in registration order, then the
\* "allrules" listeners in registration order, each with the firing's data.
C3_SpecificBeforeWildcard ==
  \A f \in Kinds("fireRule") :
    /\ Invoked(f) =
         RegisteredRuleListeners(trace[f].name, PassOf(f), trace[f].data.type)
         \o RegisteredRuleListeners("allrules", PassOf(f), trace[f].data.type)
    /\ \A n \in 1..Len(Invoked(f)) : trace[f + n].data = trace[f].data

\* a firing that called a listener of the kind and then an "allrules"
\* listener that had been registered before it
C3_Witness ==
  \E f \in Kinds("fireRule") :
    /\ Len(Invoked(f)) = 2
    /\ Invoked(f)[1][1] = "var"
    /\ Invoked(f)[2][1] = "allrules"
    /\ Invoked(f)[2][2] < Invoked(f)[1][2]

\* ------------------------------------------------------------------ C4
\* the tags of the passes started so far, in order (NoTag: the default set)
PassTags ==
  LET passes == SelectSeq(trace, LAMBDA e : e.k = "pass")
  IN [n \in 1..Len(passes) |-> passes[n].name]

\* the distinct tags of the first n registration calls, in first-use order
RECURSIVE TagsInOrder(_)
TagsInOrder(n) ==
  IF n = 0 THEN <<>>
  ELSE LET before == TagsInOrder(n - 1)
           tag == registered[n].tag
       IN IF tag = NoTag \/ \E m \in 1..Len(before) : before[m] = tag
            THEN before
            ELSE Append(before, tag)

\* the tag under which a callback was registered
TagOfCallback(cb) ==
  (CHOOSE r \in {registered[n] : n \in 1..Len(registered)} : r.callback = cb).tag

\* C4: once process() is over, whether it returned or threw, a project that
\* passed the checks of process() has had exactly one pass per tag, in the
\* order of the tags' first registration, and then the default pass; and a
\* listener is only ever called in the pass of its own set.
C4_OnePassPerSetInOrder ==
  /\ (pc \in {"timer", "done", "threw"} /\ Kinds("pass") # {}) =>
       PassTags = TagsInOrder(Len(registered)) \o <<NoTag>>
  /\ \A n \in Kinds("listener") \cup Kinds("ruleListener") :
       TagOfCallback(trace[n].cb) = PassOf(n)

\* the same for the runs in which process() returns
C4_WhenProcessReturns ==
  /\ (pc \in {"timer", "done"}) =>
       PassTags = TagsInOrder(Len(registered)) \o <<NoTag>>
  /\ \A n \in Kinds("listener") \cup Kinds("ruleListener") :
       TagOfCallback(trace[n].cb) = PassOf(n)

\* ------------------------------------------------------------------ C5
Range(q) == {q[n] : n \in 1..Len(q)}

\* C5: when a pass starts (its data is initialised and _processFile is about
\* to be called) the scope history holds one scope, the new master global
\* scope without bindings, the scope stack and the module cache are empty,
\* and no field of the walker refers to a scope of an earlier pass.
C5_FreshPassState ==
  pc = "file" =>
    /\ Len(scopes) = 1
    /\ scopes[1] = masterGlobalScope
    /\ scopes[1] = Len(heap)
    /\ heap[scopes[1]].symbols = <<>>
    /\ scopeStack = <<>>
    /\ moduleList = <<>>
    /\ currentGlobalScope \in Range(scopes)
    /\ currentScope \in Range(scopes) \cup {Undefined}

\* the part of C5 that the code does establish
C5_FreshHistoryAndStack ==
  pc = "file" =>
    /\ Len(scopes) = 1
    /\ scopes[1] = masterGlobalScope
    /\ scopes[1] = Len(heap)
    /\ heap[scopes[1]].symbols = <<>>
    /\ scopeStack = <<>>
    /\ moduleList = <<>>
    /\ currentGlobalScope \in Range(scopes)

\* ------------------------------------------------------------------ C8
\* the process-state listeners registered for an event under a tag
RegisteredStateListeners(name, tag) ==
  SelectSeq(registered, LAMBDA r : r.api = "state" /\ r.name = name /\ r.tag = tag)

\* C8: _processFile on a path that is not there fires fileLoadError once,
\* with {file, error: "File Not Found"}, to every listener of the event, and
\* nothing else (no fileProcessingBegin, contextChange or rule event); it
\* leaves the scope stack and history alone and returns, so the run goes on.
C8_MissingFileOnlyFiresLoadError ==
  \A n \in Kinds("fire") :
    trace[n].name = "fileLoadError" =>
      LET e == RunEnd(n, {"listener"})
      IN /\ trace[n].data = [file |-> EntryPoint, error |-> "File Not Found"]
         /\ trace[n - 1].k = "pass"
         /\ e - n = Len(RegisteredStateListeners("fileLoadError", PassOf(n)))
         /\ (e < Len(trace) => trace[e + 1].k # "throw")
         /\ (e = Len(trace) =>
               scopeStack = <<>> /\ Len(scopes) = 1 /\ pc # "threw")

\* ------------------------------------------------------------------ C9
\* C9: a parse failure fires parseError with exactly the payload fields
\* message, file, line and column, no rule event follows in that pass, and
\* the run is not aborted.
C9_ParseErrorPayload ==
  \A n \in Kinds("fire") :
    trace[n].name = "parseError" =>
      LET e == RunEnd(n, {"listener"})
      IN /\ DOMAIN trace[n].data = {"message", "file", "line", "column"}
         /\ \A f \in Kinds("fireRule") : f > n => PassOf(f) # PassOf(n)
         /\ (e < Len(trace) => trace[e + 1].k # "throw")
         /\ (e = Len(trace) => pc # "threw")

\* ----------------------------------------------------------------- C10
\* the errorCallback given to process(), Undefined when there is none
ErrorCallback ==
  LET calls == RegisteredStateListeners("processingError", NoTag)
  IN IF calls = <<>> THEN Undefined ELSE calls[Len(calls)].callback

\* C10: when process() has returned, every parseError that was fired has
\* also been given to the errorCallback of process().
C10_ParseErrorReachesErrorCallback ==
  (pc \in {"timer", "done"} /\ ErrorCallback # Undefined) =>
    \A n \in Kinds("fire") :
      trace[n].name = "parseError" =>
        \E m \in Kinds("listener") :
          /\ m > n
          /\ trace[m].cb = ErrorCallback
          /\ trace[m].data = trace[n].data

\* ------------------------------------------------------------------ C6
\* the scopes entered and not yet exited after the first n entries of the
\* trace, oldest first: a pass starts with none, an exit takes the newest
RECURSIVE StackAfter(_)
StackAfter(n) ==
  IF n = 0 THEN <<>>
  ELSE LET before == StackAfter(n - 1)
       IN CASE trace[n].k = "pass" -> <<>>
            [] trace[n].k = "enterScope" -> before \o <<trace[n].cb>>
            [] trace[n].k = "exitScope" ->
                 IF before = <<>> THEN <<>> ELSE SubSeq(before, 1, Len(before) - 1)
            [] OTHER -> before
Newest(stack) == IF stack = <<>> THEN Undefined ELSE stack[Len(stack)]

\* C6: scopes are well nested: every _exitScope removes the scope that was
\* entered last among those not yet exited, so the scope stack always holds
\* the entered and not yet exited scopes in the order they were entered.
C6_WellNested ==
  /\ scopeStack = StackAfter(Len(trace))
  /\ \A n \in Kinds("exitScope") : trace[n].cb = Newest(StackAfter(n - 1))

\* an exit with two different scopes entered and not yet exited
C6_Witness ==
  \E n \in Kinds("exitScope") :
    LET before == StackAfter(n - 1)
    IN Len(before) >= 2 /\ before[Len(before)] # before[Len(before) - 1]

\* ------------------------------------------------------------------ C7
\* C7: _exitScope on an empty stack throws and fires nothing; on a
\* non-empty stack it makes one contextChange firing, whose previousContext
\* is the context of the scope it popped.
C7_ExitScopeFiresOrFails ==
  \A n \in Kinds("exitScope") :
    LET before == StackAfter(n - 1)
    IN IF before = <<>>
         THEN /\ Len(trace) = n + 1
              /\ trace[n + 1].k = "throw"
              /\ pc = "threw"
         ELSE /\ Len(trace) > n
              /\ trace[n + 1].k = "fire"
              /\ trace[n + 1].name = "contextChange"
              /\ trace[n + 1].data =
                   [previousContext |-> heap[Newest(before)].context]
              /\ LET e == RunEnd(n + 1, {"listener"})
                 IN /\ \A m \in (n + 2)..e : trace[m].data = trace[n + 1].data
                    /\ e < Len(trace) =>
                         ~(trace[e + 1].k = "fire" /\ trace[e + 1].name = "contextChange")

\* an exit that fired, and after it an exit on the then empty stack
C7_Witness ==
  \E n, m \in Kinds("exitScope") :
    /\ n < m
    /\ StackAfter(n - 1) # <<>>
    /\ StackAfter(m - 1) = <<>>

C12_MalformedNodeInfoThrowsFirst ==
  \A d \in Dispatches :
    ~WellFormed(DispatchedNode(d)) =>
      /\ DispatchEnd(d) = d + 1
      /\ trace[d + 1].k = "throw"
      /\ trace[d + 1].name = "Error"

\* ----------------------------------------------------------------- C13
\* C13: a dispatch of a well-formed node whose kind has no handler throws:
\* no rule event is fired for the node, and the error ends the pass, so
\* nothing at all happens after it.
C13_UnknownKindAbortsPass ==
  \A d \in Dispatches :
    (WellFormed(DispatchedNode(d)) /\ ~HasHandler(DispatchedNode(d).info.name)) =>
      /\ Len(trace) = d + 1
      /\ trace[d + 1].k = "throw"
      /\ thrown = trace[d + 1].name
      /\ pc = "threw"

\* a widget node dispatched in a pass that has an "allrules" listener,
\* after a var node of the same file was dispatched with its events
C13_Witness ==
  \E d, e \in Dispatches :
    /\ d < e
    /\ PassOf(d) = PassOf(e)
    /\ FiringsOf(d, "post") # {}
    /\ DispatchedNode(e).info.name = "widget"
    /\ RegisteredRuleListeners("allrules", PassOf(e), "pre") # <<>>

\* ----------------------------------------------------------------- C14
\* kinds of the specification's table that an entry file of the model holds
ListedKinds == {"var", "unary-prefix", "unary-postfix", "for-in"} \cap NodeKinds

\* C14: a dispatch of a well-formed node of a listed kind, unary-prefix
\* among them, finds a handler: it does not throw, and its pre-order and its
\* post-order firing are made.
C14_EveryListedKindHasHandler ==
  \A d \in Dispatches :
    (WellFormed(DispatchedNode(d)) /\ DispatchedNode(d).info.name \in ListedKinds) =>
      /\ Within(d, "throw") = {}
      /\ FiringsOf(d, "pre") # {}
      /\ FiringsOf(d, "post") # {}

\* ----------------------------------------------------------------- C15
\* the unknown-type marker of the specification
UnknownMarker == "<unknown type>"

\* the value bound to a name in the nearest scope of the chain that declares
\* it, the unknown marker when none does
RECURSIVE ChainValue(_, _)
ChainValue(name, chain) ==
  IF chain = <<>> THEN UnknownMarker
  ELSE LET symbols == heap[chain[Len(chain)]].symbols
           bound == {n \in 1..Len(symbols) : symbols[n].name = name}
       IN IF bound # {}
            THEN symbols[CHOOSE n \in bound : TRUE].value
            ELSE ChainValue(name, SubSeq(chain, 1, Len(chain) - 1))

\* C15: lookupVariable called from a running rule listener returns the
\* value bound to the name in the nearest declaring scope of the scope
\* chain, the unknown marker when no scope declares it, and does not throw.
C15_LookupReturnsBindingOrUnknown ==
  \A n \in Kinds("lookupVariable") :
    trace[n].data.active =>
      /\ trace[n].data.error = "none"
      /\ trace[n].data.value = ChainValue(trace[n].name, scopeStack)

\* ----------------------------------------------------------------- C16
\* C16: lookupVariable called while no rule listener runs fails with an
\* invalid-context error, and the run goes on.
C16_LookupOutsideCallbackFails ==
  \A n \in Kinds("lookupVariable") :
    ~trace[n].data.active =>
      /\ trace[n].data.error = "InvalidContext"
      /\ pc # "threw"

\* ----------------------------------------------------------------- C17
\* the firings of processingComplete that belong to the pass of a tag
CompleteFirings(tag) ==
  {n \in Kinds("fire") : trace[n].name = "processingComplete" /\ PassOf(n) = tag}

\* C17: in a run that ended without an error every pass has fired
\* processingComplete once, with an empty payload, and every
\* processingComplete listener has been called exactly once, in the pass of
\* the set it was registered in.
C17_EveryPassFiresProcessingComplete ==
  pc = "done" =>
    /\ \A p \in Kinds("pass") :
         /\ Cardinality(CompleteFirings(trace[p].name)) = 1
         /\ \A n \in CompleteFirings(trace[p].name) : trace[n].data = EmptyPayload
    /\ \A r \in Range(registered) :
         (r.api = "state" /\ r.name = "processingComplete") =>
           Cardinality({n \in Kinds("listener") :
                          /\ trace[n].cb = r.callback
                          /\ trace[n].name = "processingComplete"
                          /\ PassOf(n) = r.tag}) = 1

\* ----------------------------------------------------------------- C18
\* the callbacks called by the process-state firing at n, in order
StateInvoked(n) ==
  [m \in 1..(RunEnd(n, {"listener"}) - n) |-> trace[n + m].cb]

\* the callbacks registered for an event under a tag, in registration order
StateCallbacks(name, tag) ==
  LET calls == RegisteredStateListeners(name, tag)
  IN [m \in 1..Len(calls) |-> calls[m].callback]

\* C18: every firing of a process-state event, the first ones of a pass
\* included, calls exactly the callbacks registered for the event in the
\* active set, in registration order, each with a context and the data of
\* the firing.
C18_StateEventReachesItsListeners ==
  \A n \in Kinds("fire") :
    /\ StateInvoked(n) = StateCallbacks(trace[n].name, PassOf(n))
    /\ \A m \in 1..Len(StateInvoked(n)) :
         /\ trace[n + m].name = trace[n].name
         /\ trace[n + m].data = trace[n].data
         /\ trace[n + m].ctx # NoContext

\* ----------------------------------------------------------------- C19
\* the entry file of the latest pass was there: its processing began
FileProcessedInLatestPass ==
  \E n \in Kinds("fire") :
    /\ trace[n].name = "fileProcessingBegin"
    /\ \A p \in Kinds("pass") : p < n

\* C19: when _processFile has returned for a file that exists, the scope it
\* entered has been left: the scope stack is what it was before the call
\* (empty, for the entry file), and the file's scope is still in the pass's
\* scope history.
C19_ProcessFileLeavesItsScope ==
  (pc \in {"passes", "timer", "done"} /\ FileProcessedInLatestPass) =>
    /\ scopeStack = <<>>
    /\ currentGlobalScope \in Range(scopes)

\* ----------------------------------------------------------------- C20
\* the firings of fileProcessingBegin for a path in the pass of a tag
BeginFirings(file, tag) ==
  {n \in Kinds("fire") :
     /\ trace[n].name = "fileProcessingBegin"
     /\ trace[n].data.file = file
     /\ PassOf(n) = tag}

\* C20: a pass starts with an empty module cache; once _processFile has
\* begun a file the path is in the cache; and no pass fires
\* fileProcessingBegin twice for one path.
C20_FileProcessedOncePerPass ==
  /\ pc = "file" => moduleList = <<>>
  /\ pc = "walk" => EntryPoint \in Range(moduleList)
  /\ \A p \in Kinds("pass") :
       Cardinality(BeginFirings(EntryPoint, trace[p].name)) <= 1

\* the last part alone: no second fileProcessingBegin for a path in a pass
C20_NoSecondBegin ==
  \A p \in Kinds("pass") :
    Cardinality(BeginFirings(EntryPoint, trace[p].name)) <= 1

\* ----------------------------------------------------------------- C21
\* C21: every _enterScope makes one contextChange firing; its
\* previousContext is absent for the first scope entered in a pass, in every
\* pass, and for any other _enterScope it is the context of the scope that
\* was current before the call.
C21_EnterScopeFiresPreviousContext ==
  \A n \in Kinds("enterScope") :
    LET before == StackAfter(n - 1)
    IN /\ Len(trace) > n
       /\ trace[n + 1].k = "fire"
       /\ trace[n + 1].name = "contextChange"
       /\ trace[n + 1].data =
            [previousContext |->
               IF before = <<>> THEN UndefinedContext
               ELSE heap[Newest(before)].context]

\* ----------------------------------------------------------------- C22
\* the firings of fileProcessingEnd for a path in the pass of a tag
EndFirings(file, tag) ==
  {n \in Kinds("fire") :
     /\ trace[n].name = "fileProcessingEnd"
     /\ trace[n].data = [file |-> file]
     /\ PassOf(n) = tag}

\* the pass of a tag failed to load or to parse its file
FileFailed(tag) ==
  \E n \in Kinds("fire") :
    trace[n].name \in {"fileLoadError", "parseError"} /\ PassOf(n) = tag

\* C22: when process() has returned, every pass whose file was there and
\* parsed has fired fileProcessingEnd for it once, after the file's
\* fileProcessingBegin and after the last rule event of the pass; a pass
\* whose file failed has not fired it.
C22_FileProcessingEndFollowsFile ==
  pc \in {"timer", "done"} =>
    \A p \in Kinds("pass") :
      LET tag == trace[p].name
      IN IF FileFailed(tag)
           THEN EndFirings(EntryPoint, tag) = {}
           ELSE /\ Cardinality(EndFirings(EntryPoint, tag)) = 1
                /\ \A e \in EndFirings(EntryPoint, tag) :
                     /\ \A b \in BeginFirings(EntryPoint, tag) : b < e
                     /\ \A f \in Kinds("fireRule") : PassOf(f) = tag => f < e

\* ----------------------------------------------------------------- C23
\* C23: in a dispatch the pre-order listeners are called before the node's
\* handler runs, and the post-order listeners after it: no handler call
\* comes before the pre-order firing, and one comes before the post-order
\* firing.
C23_PreOrderBeforeHandler ==
  \A d \in Dispatches :
    /\ \A f \in FiringsOf(d, "pre") : \A h \in Within(d, "handler") : f < h
    /\ \A g \in FiringsOf(d, "post") : \E h \in Within(d, "handler") : h < g

\* ----------------------------------------------------------------- C24
\* the declarators of the processed var statement that have an initializer
Initialized == SelectSeq(ast[1].children, HasInitializer)
\* the putValue calls and the dispatches made, in order
Puts == SelectSeq(trace, LAMBDA e : e.k = "Base.putValue")
Dispatched == SelectSeq(trace, LAMBDA e : e.k = "RuleProcessor.processRule")

\* the value the n-th initializer has when it is reached: a literal's
\* number, or for a name what the latest earlier declarator gave that name
InitializerValue(n) ==
  LET e == Initialized[n].init
      earlier == {m \in 1..(n - 1) : Initialized[m].name = e.value}
  IN IF e.kind = "num" THEN JSValue("Number", e.value)
     ELSE IF earlier = {} THEN UnknownValue
     ELSE Puts[CHOOSE m \in earlier : \A q \in earlier : q <= m].data.value

\* C24: the var rule goes through the declarators in source order; for each
\* one with an initializer it dispatches the initializer once and then makes
\* one putValue of the declarator's name with the initializer's value, so
\* that a name ends with the value of its last initializer; a declarator
\* without initializer gets no putValue; the rule returns a normal
\* completion without value and target.
C24_VarDeclaratorsInOrder ==
  (pc = "done" /\ Kinds("return") # {}) =>
    /\ thrown = "none"
    /\ Len(trace) = 2 * Len(Initialized) + 2
    /\ trace[Len(trace)].data.completion = <<"normal", UndefinedValue, UndefinedValue>>
    /\ Len(Puts) = Len(Initialized)
    /\ Len(Dispatched) = Len(Initialized)
    /\ \A n \in 1..Len(Initialized) :
         /\ trace[2 * n].k = "RuleProcessor.processRule"
         /\ trace[2 * n].data.rule = Initialized[n].init
         /\ trace[2 * n + 1].k = "Base.putValue"
         /\ trace[2 * n + 1].name = Initialized[n].name
         /\ trace[2 * n + 1].data.value = InitializerValue(n)
    /\ \A name \in VarNames :
         LET puts == {n \in 1..Len(Puts) : Puts[n].name = name}
             bound == BindingsOf(heap[currentScope].symbols, name)
         IN IF puts = {} THEN bound = {}
            ELSE /\ Cardinality(bound) = 1
                 /\ \A b \in bound :
                      heap[currentScope].symbols[b].value =
                        Puts[CHOOSE n \in puts : \A q \in puts : q <= n].data.value

\* `var x = 1, x = 2' has been processed and x is bound to 2
C24_Witness ==
  /\ pc = "done"
  /\ Kinds("return") # {}
  /\ Len(ast[1].children) = 2
  /\ ast[1].children[1] = [name |-> "x", init |-> [kind |-> "num", value |-> "1"]]
  /\ ast[1].children[2] = [name |-> "x", init |-> [kind |-> "num", value |-> "2"]]
  /\ heap[currentScope].symbols = <<[name |-> "x", value |-> JSValue("Number", "2")]>>

\* ----------------------------------------------------------------- C25
\* the callbacks registered for a rule name under a tag and an order, in
\* registration order
RuleCallbacks(name, tag, type) ==
  LET calls == RegisteredRuleListeners(name, tag, type)
  IN [m \in 1..Len(calls) |-> calls[m][2]]

\* a listener set holds exactly what was registered under its tag
HoldsRegistered(set, tag) ==
  /\ set.tag = tag
  /\ \A name \in ProcessStateEvents :
       set.processStateListeners[name] = StateCallbacks(name, tag)
  /\ \A name \in RuleNames, type \in {"pre", "post"} :
       set.ruleListeners[name][type] = RuleCallbacks(name, tag, type)

\* C25: after any registrations there is one tagged set per tag used, in
\* the order of the tags' first use, and the default set; each set holds
\* the callbacks registered under its tag and no others, in registration
\* order.
C25_OneSetPerTag ==
  LET tags == TagsInOrder(Len(registered))
  IN /\ Len(taggedListeners) = Len(tags)
     /\ \A n \in 1..Len(tags) : HoldsRegistered(taggedListeners[n], tags[n])
     /\ HoldsRegistered(defaultListeners, NoTag)

\* two callbacks registered one after the other under the same tag
C25_Witness ==
  /\ Len(registered) = 2
  /\ registered[1].tag = "A"
  /\ registered[2].tag = "A"
  /\ registered[1].name = registered[2].name
  /\ Len(taggedListeners) = 1

\* ----------------------------------------------------------------- C26
\* C26: process() registers no listener for a callback that was not given:
\* no listener list ever holds undefined, and no firing of
\* processingComplete ends in an error.
C26_OmittedCallbackNotRegistered ==
  /\ \A name \in ProcessStateEvents :
       \A n \in 1..Len(defaultListeners.processStateListeners[name]) :
         defaultListeners.processStateListeners[name][n] # Undefined
  /\ \A n \in Kinds("fire") :
       trace[n].name = "processingComplete" =>
         LET e == RunEnd(n, {"listener"})
         IN e < Len(trace) => trace[e + 1].k # "throw"

\* the second part alone: no firing of processingComplete ends in an error
C26_CompleteFiringDoesNotThrow ==
  \A n \in Kinds("fire") :
    trace[n].name = "processingComplete" =>
      LET e == RunEnd(n, {"listener"})
      IN e < Len(trace) => trace[e + 1].k # "throw"

\* ----------------------------------------------------------------- C27
\* C27: in every state the current scope is the top of the scope stack,
\* undefined exactly when the stack is empty, and every scope on the stack
\* is in the scope history of the current pass.
C27_CurrentScopeIsTopOfStack ==
  /\ IF scopeStack = <<>> THEN currentScope = Undefined
     ELSE currentScope = scopeStack[Len(scopeStack)]
  /\ Range(scopeStack) \subseteq Range(scopes)

\* the second part alone: the stack holds scopes of the current pass
C27_StackWithinHistory == Range(scopeStack) \subseteq Range(scopes)

====
